---- MODULE Spec2Model ----
(***************************************************************************)
(* Model of the request cache of the data-table application                *)
(* (src/src/lib/dataCache.ts): key derivation, URL construction, the entry *)
(* map of promises, prefetching and invalidation.                          *)
(* Around it: the DataTable component that fetches through a provider, the *)
(* App component whose effect schedules the prefetch, and debounce.        *)
(*                                                                         *)
(* JavaScript is single threaded: every method of DataCache runs to        *)
(* completion (none of them awaits), so each method is one atomic action.  *)
(* The only asynchronous step is the settling of a transport call.         *)
(***************************************************************************)
EXTENDS Integers, Sequences, FiniteSets, TLC

VARIABLES cache, requests, last, probe, grid, effects, initialData, rendered,
          app, debounced, other

vars == <<cache, requests, last, probe, grid, effects, initialData, rendered,
          app, debounced, other>>

\* what lies outside the cache and the fetch effect of the table
outside == <<probe, rendered, app, debounced, other>>

(***************************************************************************)
(* Bounds of the model.                                                    *)
(***************************************************************************)
\* at most this many transport calls are issued in one behaviour
MaxCalls == 3
\* at most this many runs of the grid's fetch effect in one behaviour
MaxEffects == 3
\* at most this many renders of the App component in one behaviour
MaxRenders == 3
\* at most this many calls of the debounced function in one behaviour
MaxDebounced == 3
\* the clock of the debounced function stops at this time
MaxClock == 6

(***************************************************************************)
(* Program constants.                                                      *)
(***************************************************************************)
\* dataCache.ts:121  if (pageIndex < 1000)
PrefetchCeiling == 1000
\* dataCache.ts:37 / :86  default page size
DefaultPageSize == 10
\* dataCache.ts:37 / :86  default page index
DefaultPageIndex == 0

\* constructor arguments of the DataCache under study: the product cache
\* createDataCache(baseApiUrl, 'products', 'name')
baseUrl == "http://api"
endpoint == "products"
globalFilterField == "name"

(***************************************************************************)
(* FetchOptions (dataCache.ts:4-10).  An optional field is a sequence of   *)
(* length 0 (absent) or 1; globalFilter absent and "" behave alike in the  *)
(* code (both falsy) and are both "".  extra lists the custom keys in      *)
(* Object.entries order, each with its value already a JSON value.         *)
(***************************************************************************)
Page(i, s) == <<[pageIndex |-> i, pageSize |-> s]>>

NoPagination == <<>>

Options(sorting, pagination, columnFilters, globalFilter, extra) ==
    [sorting |-> sorting, pagination |-> pagination,
     columnFilters |-> columnFilters, globalFilter |-> globalFilter,
     extra |-> extra]

HasPagination(options) == options.pagination # <<>>

PageIndexOf(options) == options.pagination[1].pageIndex

PageSizeOf(options) == options.pagination[1].pageSize

\* template-literal rendering of a boolean
BoolStr(b) == IF b THEN "true" ELSE "false"

\* template-literal rendering of an integer
NumStr(n) == IF n < 0 THEN "-" \o ToString(0 - n) ELSE ToString(n)

\* JSON.stringify of a custom value: numbers bare, strings quoted
JsonStringify(v) ==
    IF v.type = "number" THEN NumStr(v.n) ELSE "\"" \o v.s \o "\""

\* Array.prototype.join
RECURSIVE Join(_, _)
Join(strs, sep) ==
    IF Len(strs) = 0 THEN ""
    ELSE IF Len(strs) = 1 THEN strs[1]
    ELSE strs[1] \o sep \o Join(Tail(strs), sep)

SortKeyPart(s) == s.id \o ":" \o BoolStr(s.desc)

FilterKeyPart(f) == f.id \o ":" \o f.value

CustomKeyPart(e) == e.key \o ":" \o JsonStringify(e.value)

\* a key derivation without a default page
getCacheKeyUnpaged(options) ==
    LET sortKey == Join([i \in 1..Len(options.sorting) |-> SortKeyPart(options.sorting[i])], ",")
        pageKey == IF HasPagination(options)
                   THEN "page=" \o NumStr(PageIndexOf(options))
                        \o ",size=" \o NumStr(PageSizeOf(options))
                   ELSE ""
        columnFilterKey == Join([i \in 1..Len(options.columnFilters) |->
                                    FilterKeyPart(options.columnFilters[i])], ",")
        customKeys == Join([i \in 1..Len(options.extra) |-> CustomKeyPart(options.extra[i])], "|")
    IN  endpoint \o "|" \o sortKey \o "|" \o pageKey \o "|" \o options.globalFilter
        \o "|" \o columnFilterKey
        \o (IF customKeys # "" THEN "|" \o customKeys ELSE "")

\* a key derivation that does not tell the order of two entries
getCacheKeyUnordered(options) ==
    LET Unordered(parts) ==
            IF Len(parts) = 2
            THEN LET first == CHOOSE x \in {parts[1], parts[2]} : TRUE
                     second == CHOOSE x \in {parts[1], parts[2]} :
                                   parts[1] # parts[2] => x # first
                 IN  first \o "," \o second
            ELSE Join(parts, ",")
        sortKey == Unordered([i \in 1..Len(options.sorting) |-> SortKeyPart(options.sorting[i])])
        pageKey == IF HasPagination(options)
                   THEN "page=" \o NumStr(PageIndexOf(options))
                        \o ",size=" \o NumStr(PageSizeOf(options))
                   ELSE "page=0,size=10"
        columnFilterKey == Unordered([i \in 1..Len(options.columnFilters) |->
                                    FilterKeyPart(options.columnFilters[i])])
        customKeys == Join([i \in 1..Len(options.extra) |-> CustomKeyPart(options.extra[i])], "|")
    IN  endpoint \o "|" \o sortKey \o "|" \o pageKey \o "|" \o options.globalFilter
        \o "|" \o columnFilterKey
        \o (IF customKeys # "" THEN "|" \o customKeys ELSE "")

\* a key derivation that appends the extra segment even when it is empty
getCacheKeyAlwaysExtra(options) ==
    LET sortKey == Join([i \in 1..Len(options.sorting) |-> SortKeyPart(options.sorting[i])], ",")
        pageKey == IF HasPagination(options)
                   THEN "page=" \o NumStr(PageIndexOf(options))
                        \o ",size=" \o NumStr(PageSizeOf(options))
                   ELSE "page=0,size=10"
        columnFilterKey == Join([i \in 1..Len(options.columnFilters) |->
                                    FilterKeyPart(options.columnFilters[i])], ",")
        customKeys == Join([i \in 1..Len(options.extra) |-> CustomKeyPart(options.extra[i])], "|")
    IN  endpoint \o "|" \o sortKey \o "|" \o pageKey \o "|" \o options.globalFilter
        \o "|" \o columnFilterKey \o "|" \o customKeys

\* dataCache.ts:30-52
getCacheKey(options) ==
    LET sortKey == IF Len(options.sorting) > 0
                   THEN Join([i \in 1..Len(options.sorting) |-> SortKeyPart(options.sorting[i])], ",")
                   ELSE ""
        pageKey == IF HasPagination(options)
                   THEN "page=" \o NumStr(PageIndexOf(options))
                        \o ",size=" \o NumStr(PageSizeOf(options))
                   ELSE "page=0,size=10"
        filterKey == options.globalFilter
        columnFilterKey == IF Len(options.columnFilters) > 0
                           THEN Join([i \in 1..Len(options.columnFilters) |->
                                    FilterKeyPart(options.columnFilters[i])], ",")
                           ELSE ""
        customKeys == Join([i \in 1..Len(options.extra) |-> CustomKeyPart(options.extra[i])], "|")
    IN  endpoint \o "|" \o sortKey \o "|" \o pageKey \o "|" \o filterKey
        \o "|" \o columnFilterKey
        \o (IF customKeys # "" THEN "|" \o customKeys ELSE "")

\* url.endsWith('?')
EndsWithQ(url) == Len(url) > 0 /\ SubSeq(url, Len(url), Len(url)) = "?"

Amp(url) == IF ~EndsWithQ(url) THEN url \o "&" ELSE url

SortUrlPart(s) == (IF s.desc THEN "-" ELSE "") \o s.id

FilterUrlPart(f) == "&" \o f.id \o "=" \o f.value

\* dataCache.ts:64-103
BuildUrl(options) ==
    LET u0 == baseUrl \o "/" \o endpoint \o "?"
        u1 == IF Len(options.sorting) > 0
              THEN Amp(u0) \o "_sort=" \o Join([i \in 1..Len(options.sorting) |->
                                    SortUrlPart(options.sorting[i])], ",")
              ELSE u0
        u2 == IF HasPagination(options)
              THEN Amp(u1) \o "_page=" \o NumStr(PageIndexOf(options) + 1)
                   \o "&_per_page=" \o NumStr(PageSizeOf(options))
              ELSE Amp(u1) \o "_page=1&_per_page=10"
        u3 == IF options.globalFilter # "" /\ globalFilterField # ""
              THEN Amp(u2) \o globalFilterField \o "=" \o options.globalFilter
              ELSE u2
        u4 == IF Len(options.columnFilters) > 0
              THEN Amp(u3) \o Join([i \in 1..Len(options.columnFilters) |->
                                 FilterUrlPart(options.columnFilters[i])], "")
              ELSE u3
    IN  u4

(***************************************************************************)
(* State.                                                                  *)
(*   requests  every transport call made so far: the promise               *)
(*             fetch(url).then(r => r.json())  of line 106.  key and n     *)
(*             identify it (the n-th call made for that key), status and   *)
(*             pages are the promise's state and the page count of the     *)
(*             response it resolved with; via tells whether the call was   *)
(*             issued for a caller that receives the promise (fetchData,   *)
(*             prefetchInitialData) or by the fire-and-forget              *)
(*             prefetchAdjacentPages; removed records that the entry       *)
(*             holding the promise was deleted from the map.               *)
(*   cache     the private Map<string, Promise<T>> (line 14): key to the   *)
(*             number n of the stored promise.                             *)
(*   last      the most recent event: the method called (or the settling  *)
(*             of a transport call), the promise handed to the caller and  *)
(*             whether the call found its key in the map (line 60).        *)
(*   probe     the descriptor a caller works with: drawn at the start from *)
(*             a family that varies every field of FetchOptions, and       *)
(*             fetched as given, with an array reversed, or with the       *)
(*             first page spelled out.                                     *)
(*   grid      the DataTable component (DataTable.tsx): whether it is      *)
(*             mounted, its table state (pagination, sorting, globalFilter,*)
(*             columnFilters: lines 94-108), whether that state changed    *)
(*             since the fetch effect last ran (the effect's dependencies, *)
(*             line 179), and currentData (line 89).                       *)
(*   effects   the runs of the fetch effect (lines 156-179): the table     *)
(*             state each run fetched, the promise it awaits (line 164),   *)
(*             its isMounted flag (line 157) and how far it got.           *)
(*   initialData  the initialData field of the provider                    *)
(*             (BaseDataProvider, ProductTable.tsx:504).                   *)
(*   rendered  the features prop a DataTable was given and the options it  *)
(*             hands to useReactTable once it rendered (lines 190-242).    *)
(*   app       the App component (App.tsx): whether it is mounted, its     *)
(*             options state (lines 12-23), the page index its prefetch    *)
(*             effect last ran for (the dependency of line 44), the        *)
(*             timeoutId the cleanup of that run holds (line 42), the      *)
(*             timeouts set and not yet fired or cleared, each with the    *)
(*             options its callback closed over (lines 38-40), and the     *)
(*             numbers of setTimeout calls and of renders so far.          *)
(*   debounced one function returned by debounce (utils.tsx:1-10): the     *)
(*             clock, the pending timeout of its closure, and the calls    *)
(*             made to it and to func so far.                              *)
(*   other     the DataCache of the provider that the module function      *)
(*             prefetchInitialData constructs (ProductDataProvider.ts:     *)
(*             118-121), next to the cache of the table's own provider.    *)
(***************************************************************************)
\* response page counts the transport may report
PageCounts == {1}

\* the promise created at line 106 by the n-th transport call for cacheKey
StoredPromise(cacheKey, n) == [kind |-> "fetch", key |-> cacheKey, n |-> n]

\* what an async function hands to its caller for `return p`: a new promise
\* that adopts p's outcome (line 55: `async fetchData`)
AsyncReturn(p) == [kind |-> "async", key |-> p.key, n |-> p.n]

NoPromise == [kind |-> "void", key |-> "", n |-> 0]

Event(op, returned, hit) == [op |-> op, returned |-> returned, hit |-> hit]

\* the transport calls made so far for a key
CallsFor(rq, cacheKey) == {q \in rq : q.key = cacheKey}

NewRequest(cacheKey, n, url, via) ==
    [key |-> cacheKey, n |-> n, url |-> url, status |-> "pending", pages |-> 0,
     via |-> via, removed |-> FALSE]

\* fetchData without the lookup of lines 59-62: every call goes to the
\* transport and overwrites the entry
fetchDataAlways(c, rq, options, via) ==
    LET cacheKey == getCacheKey(options)
        n == Cardinality(CallsFor(rq, cacheKey)) + 1
    IN  [cache |-> [k \in DOMAIN c \cup {cacheKey} |->
                       IF k = cacheKey THEN n ELSE c[k]],
         requests |-> rq \cup {NewRequest(cacheKey, n, BuildUrl(options), via)},
         hit |-> FALSE,
         returned |-> AsyncReturn(StoredPromise(cacheKey, n))]

\* fetchData without the cache.set of line 109
fetchDataUnstored(c, rq, options, via) ==
    LET cacheKey == getCacheKey(options)
    IN  IF cacheKey \in DOMAIN c
        THEN [cache |-> c, requests |-> rq, hit |-> TRUE,
              returned |-> AsyncReturn(StoredPromise(cacheKey, c[cacheKey]))]
        ELSE LET n == Cardinality(CallsFor(rq, cacheKey)) + 1
             IN  [cache |-> c,
                  requests |-> rq \cup {NewRequest(cacheKey, n, BuildUrl(options), via)},
                  hit |-> FALSE,
                  returned |-> AsyncReturn(StoredPromise(cacheKey, n))]

\* a fetchData that, on a miss, joins a transport call for the key that is
\* still pending and puts its promise back into the map
fetchDataRejoins(c, rq, options, via) ==
    LET cacheKey == getCacheKey(options)
        pending == {q \in CallsFor(rq, cacheKey) : q.status = "pending"}
    IN  IF cacheKey \in DOMAIN c
        THEN [cache |-> c, requests |-> rq, hit |-> TRUE,
              returned |-> AsyncReturn(StoredPromise(cacheKey, c[cacheKey]))]
        ELSE IF pending # {}
        THEN LET q == CHOOSE r \in pending : TRUE
             IN  [cache |-> [k \in DOMAIN c \cup {cacheKey} |->
                                IF k = cacheKey THEN q.n ELSE c[k]],
                  requests |-> rq, hit |-> FALSE,
                  returned |-> AsyncReturn(StoredPromise(cacheKey, q.n))]
        ELSE LET n == Cardinality(CallsFor(rq, cacheKey)) + 1
                 url == BuildUrl(options)
             IN  [cache |-> [k \in DOMAIN c \cup {cacheKey} |->
                                IF k = cacheKey THEN n ELSE c[k]],
                  requests |-> rq \cup {NewRequest(cacheKey, n, url, via)},
                  hit |-> FALSE,
                  returned |-> AsyncReturn(StoredPromise(cacheKey, n))]

\* dataCache.ts:55-112; c and rq are the map and the transport calls the call
\* starts from, via the kind of method on whose behalf it runs
fetchData(c, rq, options, via) ==
    LET cacheKey == getCacheKey(options)
    IN  IF cacheKey \in DOMAIN c
        THEN [cache |-> c, requests |-> rq, hit |-> TRUE,
              returned |-> AsyncReturn(StoredPromise(cacheKey, c[cacheKey]))]
        ELSE LET n == Cardinality(CallsFor(rq, cacheKey)) + 1
                 url == BuildUrl(options)
             IN  [cache |-> [k \in DOMAIN c \cup {cacheKey} |->
                                IF k = cacheKey THEN n ELSE c[k]],
                  requests |-> rq \cup {NewRequest(cacheKey, n, url, via)},
                  hit |-> FALSE,
                  returned |-> AsyncReturn(StoredPromise(cacheKey, n))]

\* { ...currentOptions, pagination: { pageIndex: i, pageSize } }
WithPage(options, i, s) == [options EXCEPT !.pagination = Page(i, s)]

\* prefetchAdjacentPages without the test of line 130: the previous page is
\* fetched from the first page too
AdjacentPagesNoFloor(currentOptions) ==
    IF ~HasPagination(currentOptions) THEN <<>>
    ELSE LET pageIndex == PageIndexOf(currentOptions)
             pageSize == PageSizeOf(currentOptions)
         IN  (IF pageIndex < PrefetchCeiling
              THEN <<WithPage(currentOptions, pageIndex + 1, pageSize)>>
              ELSE <<>>)
             \o <<WithPage(currentOptions, pageIndex - 1, pageSize)>>

\* prefetchAdjacentPages with  pageIndex <= 1000  at line 121
AdjacentPagesInclusive(currentOptions) ==
    IF ~HasPagination(currentOptions) THEN <<>>
    ELSE LET pageIndex == PageIndexOf(currentOptions)
             pageSize == PageSizeOf(currentOptions)
         IN  (IF pageIndex <= PrefetchCeiling
              THEN <<WithPage(currentOptions, pageIndex + 1, pageSize)>>
              ELSE <<>>)
             \o
             (IF pageIndex > 0
              THEN <<WithPage(currentOptions, pageIndex - 1, pageSize)>>
              ELSE <<>>)

\* a prefetch that reads an absent pagination as the default page
AdjacentPagesDefaulting(currentOptions) ==
    LET pageIndex == IF HasPagination(currentOptions)
                     THEN PageIndexOf(currentOptions) ELSE DefaultPageIndex
        pageSize == IF HasPagination(currentOptions)
                    THEN PageSizeOf(currentOptions) ELSE DefaultPageSize
    IN  (IF pageIndex < PrefetchCeiling
         THEN <<WithPage(currentOptions, pageIndex + 1, pageSize)>>
         ELSE <<>>)
        \o
        (IF pageIndex > 0
         THEN <<WithPage(currentOptions, pageIndex - 1, pageSize)>>
         ELSE <<>>)

\* dataCache.ts:115-137: the descriptors handed to this.fetchData, in order
AdjacentPages(currentOptions) ==
    IF ~HasPagination(currentOptions) THEN <<>>
    ELSE LET pageIndex == PageIndexOf(currentOptions)
             pageSize == PageSizeOf(currentOptions)
         IN  (IF pageIndex < PrefetchCeiling
              THEN <<WithPage(currentOptions, pageIndex + 1, pageSize)>>
              ELSE <<>>)
             \o
             (IF pageIndex > 0
              THEN <<WithPage(currentOptions, pageIndex - 1, pageSize)>>
              ELSE <<>>)

\* the fetchData calls of one method run one after the other
RECURSIVE FetchAll(_, _, _, _)
FetchAll(c, rq, optionsSeq, via) ==
    IF Len(optionsSeq) = 0 THEN [cache |-> c, requests |-> rq]
    ELSE LET first == fetchData(c, rq, Head(optionsSeq), via)
         IN  FetchAll(first.cache, first.requests, Tail(optionsSeq), via)

\* a merge in which the default pagination wins over the caller's
MergeInitialDefaultsWin(initialOptions) ==
    [initialOptions EXCEPT
        !.pagination = Page(DefaultPageIndex, DefaultPageSize)]

\* dataCache.ts:140-146: partial pagination fields override the defaults
MergeInitial(initialOptions) ==
    LET given == initialOptions.pagination
        pageIndex == IF given # <<>> /\ given[1].pageIndex # <<>>
                     THEN given[1].pageIndex[1] ELSE DefaultPageIndex
        pageSize == IF given # <<>> /\ given[1].pageSize # <<>>
                    THEN given[1].pageSize[1] ELSE DefaultPageSize
    IN  [initialOptions EXCEPT !.pagination = Page(pageIndex, pageSize)]

(***************************************************************************)
(* Inputs.  Two families of descriptors: the first pages (with and without *)
(* a sort order, and the unpaginated descriptor), and the pages around the *)
(* prefetch ceiling.                                                       *)
(***************************************************************************)
ByName == <<[id |-> "name", desc |-> FALSE]>>

Unsorted(pagination) == Options(<<>>, pagination, <<>>, "", <<>>)

Sorted(pagination) == Options(ByName, pagination, <<>>, "", <<>>)

Descriptors ==
    {Unsorted(NoPagination), Sorted(Page(0, DefaultPageSize)),
     Sorted(Page(1, DefaultPageSize))}

FetchDescriptors == Descriptors \cup {Unsorted(Page(0, DefaultPageSize))}

PartialDescriptors ==
    {Unsorted(NoPagination),
     Sorted(<<[pageIndex |-> <<1>>, pageSize |-> <<>>]>>)}

CeilingDescriptors ==
    {Unsorted(Page(i, DefaultPageSize)) :
        i \in {PrefetchCeiling - 1, PrefetchCeiling, PrefetchCeiling + 1}}

\* FetchOptions values that vary every field: none, one and two sort
\* entries and column filters, a global filter, extra parameters
ByNameThenPrice ==
    <<[id |-> "name", desc |-> FALSE], [id |-> "price", desc |-> TRUE]>>

InCategory == <<[id |-> "category", value |-> "tools"]>>

InCategoryAndBrand ==
    <<[id |-> "category", value |-> "tools"], [id |-> "brand", value |-> "acme"]>>

\* two filters on one column, the second value holding the characters the
\* key is punctuated with
InCategoryTwice ==
    <<[id |-> "category", value |-> "tools"],
      [id |-> "category", value |-> "tools,category:tools"]>>

WithTenant == <<[key |-> "tenant", value |-> [type |-> "number", n |-> 7]]>>

WithTenantAndView ==
    <<[key |-> "tenant", value |-> [type |-> "number", n |-> 7]],
      [key |-> "view", value |-> [type |-> "string", s |-> "grid"]]>>

KeyInputs ==
    {Options(sorting, pagination, columnFilters, globalFilter, extra) :
        sorting \in {<<>>, ByName, ByNameThenPrice},
        pagination \in {NoPagination, Page(2, 25)},
        columnFilters \in {<<>>, InCategory, InCategoryAndBrand, InCategoryTwice},
        globalFilter \in {"", "saw"},
        extra \in {<<>>, WithTenant, WithTenantAndView}}

\* Array.prototype.reverse on a copy
Reverse(seq) == [i \in 1..Len(seq) |-> seq[Len(seq) + 1 - i]]

\* the first page spelled out where the descriptor leaves pagination out
FirstPageSpelledOut(options) ==
    IF HasPagination(options) THEN options
    ELSE WithPage(options, DefaultPageIndex, DefaultPageSize)

\* the descriptors a caller derives from the one it works with
Variants(options) ==
    {options,
     [options EXCEPT !.sorting = Reverse(@)],
     [options EXCEPT !.columnFilters = Reverse(@)],
     FirstPageSpelledOut(options)}

\* DataTable.tsx:38-43
FeatureFlags ==
    {"enableSorting", "enablePagination", "enableGlobalFilter",
     "enableColumnFilters"}

\* the features prop left out
NoFeatures == <<>>

\* the features prop: left out, or an object that sets some of the flags
FeatureInputs ==
    {NoFeatures} \cup
    {<<f>> : f \in UNION {[S -> BOOLEAN] : S \in SUBSET FeatureFlags}}

\* DataTable.tsx:66-71: the default of the destructured features parameter,
\* used when the prop is undefined
FeaturesParameter(given) ==
    IF given = NoFeatures THEN [flag \in FeatureFlags |-> TRUE] ELSE given[1]

\* `if (features.enableX)`: an absent flag reads undefined
Truthy(features, flag) == flag \in DOMAIN features /\ features[flag]

\* DataTable.tsx:190-240: what the feature blocks merge into baseTableOptions
TableOptionsOf(features) ==
    [manualPagination |-> Truthy(features, "enablePagination"),
     manualSorting |-> Truthy(features, "enableSorting"),
     manualGlobalFilter |-> Truthy(features, "enableGlobalFilter"),
     manualFiltering |-> Truthy(features, "enableColumnFilters"),
     state |->
        {slice \in {"pagination", "sorting", "globalFilter", "columnFilters"} :
            \/ slice = "pagination" /\ Truthy(features, "enablePagination")
            \/ slice = "sorting" /\ Truthy(features, "enableSorting")
            \/ slice = "globalFilter" /\ Truthy(features, "enableGlobalFilter")
            \/ slice = "columnFilters" /\ Truthy(features, "enableColumnFilters")},
     handlers |->
        {handler \in {"onPaginationChange", "onSortingChange",
                      "onGlobalFilterChange", "onColumnFiltersChange"} :
            \/ handler = "onPaginationChange" /\ Truthy(features, "enablePagination")
            \/ handler = "onSortingChange" /\ Truthy(features, "enableSorting")
            \/ handler = "onGlobalFilterChange" /\ Truthy(features, "enableGlobalFilter")
            \/ handler = "onColumnFiltersChange" /\ Truthy(features, "enableColumnFilters")}]

\* a DataTable given the features prop and not rendered yet
NotRendered(given) == [features |-> given, options |-> <<>>]

\* part_000:7-15
initialProductResponse ==
    [first |-> 0, prev |-> 0, next |-> 0, last |-> 0, pages |-> 0, items |-> 0,
     data |-> <<>>]

\* the body the transport call q resolved with: a json-server page whose rows
\* are those of the request q made
ResponseOf(q) ==
    [first |-> 1, prev |-> 0, next |-> 0, last |-> q.pages, pages |-> q.pages,
     items |-> 1, data |-> <<[url |-> q.url, n |-> q.n]>>]

\* jsonServerBaseDataProvider.ts:24-26
getRowData(response) == response.data

\* jsonServerBaseDataProvider.ts:34-36
getRowCount(response) == response.items

\* jsonServerBaseDataProvider.ts:44-46
getPageCount(response) == response.pages

\* DataTable.tsx:94-108: the table state of a DataTable mounted without options
DefaultTableState == Unsorted(Page(DefaultPageIndex, DefaultPageSize))

\* the table states the user moves between: with and without a column filter
\* (typed into a debounced input, ProductTable.tsx:29-33)
GridStates ==
    {DefaultTableState,
     Options(<<>>, Page(DefaultPageIndex, DefaultPageSize), InCategory, "", <<>>)}

\* part_008:503-505, 516-518: the descriptor addProduct and deleteProduct
\* invalidate
InvalidatedAfterEdit == {Unsorted(Page(0, 10))}

Grid(mounted, state, dirty, currentData) ==
    [mounted |-> mounted, state |-> state, dirty |-> dirty,
     currentData |-> currentData]

\* no DataTable is mounted
NoGrid == Grid(FALSE, DefaultTableState, FALSE, initialProductResponse)

\* App.tsx:16-19
ByFirstName == <<[id |-> "first_name", desc |-> FALSE]>>

\* App.tsx:12-23: the initial options state
AppInitialOptions == Options(ByFirstName, Page(0, 10), <<>>, "", <<>>)

\* the value of the effect's dependency before its first run
NeverRan == -2

\* options.pagination?.pageIndex of an options without pagination
Undefined == -1

\* App is not mounted
NoApp ==
    [mounted |-> FALSE, options |-> AppInitialOptions, deps |-> NeverRan,
     timeoutId |-> 0, timers |-> {}, made |-> 0, renders |-> 0]

\* utils.tsx:1-2: debounce(func, delay) was called: timeoutId is not set,
\* nothing called the function it returned
NoDebounced ==
    [now |-> 0, timeoutId |-> 0, timers |-> {}, made |-> 0,
     calls |-> <<>>, invoked |-> <<>>]

\* prefetchInitialData constructed no provider
NoOther == [made |-> 0, shared |-> FALSE, cache |-> [k \in {} |-> 0]]

Init ==
    /\ app = NoApp
    /\ debounced = NoDebounced
    /\ other = NoOther
    /\ cache = [k \in {} |-> 0]
    /\ requests = {}
    /\ last = Event("new", NoPromise, FALSE)
    /\ probe = Unsorted(NoPagination)
    /\ rendered = NotRendered(NoFeatures)
    /\ grid = NoGrid
    /\ effects = {}
    /\ initialData = initialProductResponse

\* the empty cache, and a caller with any descriptor of the family
InitKeys ==
    /\ app = NoApp
    /\ debounced = NoDebounced
    /\ other = NoOther
    /\ cache = [k \in {} |-> 0]
    /\ requests = {}
    /\ last = Event("new", NoPromise, FALSE)
    /\ probe \in KeyInputs
    /\ rendered = NotRendered(NoFeatures)
    /\ grid = NoGrid
    /\ effects = {}
    /\ initialData = initialProductResponse

(***************************************************************************)
(* Actions: one per public method, and the settling of a transport call.   *)
(***************************************************************************)
\* a caller (the grid, through its provider) calls fetchData(options)
FetchData(options) ==
    LET result == fetchData(cache, requests, options, "caller")
    IN  /\ Cardinality(result.requests) <= MaxCalls
        /\ cache' = result.cache
        /\ requests' = result.requests
        /\ last' = Event("fetchData", result.returned, result.hit)

\* a prefetch whose promises do not land in the map that fetchData reads
PrefetchElsewhere(currentOptions) ==
    LET fetched == AdjacentPages(currentOptions)
        result == FetchAll(cache, requests, fetched, "prefetch")
    IN  /\ Cardinality(result.requests) <= MaxCalls
        /\ cache' = cache
        /\ requests' = result.requests
        /\ last' = Event("prefetchAdjacentPages", NoPromise, FALSE)

\* dataCache.ts:115-137
PrefetchAdjacentPages(currentOptions) ==
    LET fetched == AdjacentPages(currentOptions)
        result == FetchAll(cache, requests, fetched, "prefetch")
    IN  /\ Cardinality(result.requests) <= MaxCalls
        /\ cache' = result.cache
        /\ requests' = result.requests
        /\ last' = Event("prefetchAdjacentPages", NoPromise, FALSE)

\* dataCache.ts:140-146
PrefetchInitialData(initialOptions) ==
    LET merged == MergeInitial(initialOptions)
        result == fetchData(cache, requests, merged, "caller")
    IN  /\ Cardinality(result.requests) <= MaxCalls
        /\ cache' = result.cache
        /\ requests' = result.requests
        /\ last' = Event("prefetchInitialData", result.returned, result.hit)

\* a delete that leaves the entries where they are
RemoveNothing(c, gone) == c

\* Map.delete(key) / Map.clear(): the entries under the keys in gone go
Remove(c, gone) == [k \in DOMAIN c \ gone |-> c[k]]

MarkRemoved(c, rq, gone) ==
    {IF q.key \in gone /\ q.key \in DOMAIN c /\ c[q.key] = q.n
     THEN [q EXCEPT !.removed = TRUE] ELSE q : q \in rq}

\* an invalidateCache that drops the whole map
InvalidateDropsAll(options) ==
    /\ cache' = Remove(cache, DOMAIN cache)
    /\ requests' = MarkRemoved(cache, requests, DOMAIN cache)
    /\ last' = Event("invalidateCache", NoPromise, FALSE)

\* dataCache.ts:154-157
InvalidateCache(options) ==
    LET cacheKey == getCacheKey(options)
    IN  /\ cache' = Remove(cache, {cacheKey})
        /\ requests' = MarkRemoved(cache, requests, {cacheKey})
        /\ last' = Event("invalidateCache", NoPromise, FALSE)

\* dataCache.ts:149-151
ClearCache ==
    /\ cache' = Remove(cache, DOMAIN cache)
    /\ requests' = MarkRemoved(cache, requests, DOMAIN cache)
    /\ last' = Event("clearCache", NoPromise, FALSE)

\* the transport call q settles: fetch(url).then(r => r.json()) resolves
\* with a response reporting `pages` pages, or rejects
Settle(q, status, pages) ==
    (requests \ {q}) \cup {[q EXCEPT !.status = status, !.pages = pages]}

\* a transport whose response is put into the map under its key when it
\* arrives
TransportResolveStores(q, pages) ==
    /\ q.status = "pending"
    /\ requests' = Settle(q, "resolved", pages)
    /\ last' = Event("resolve", NoPromise, FALSE)
    /\ cache' = [k \in DOMAIN cache \cup {q.key} |->
                    IF k = q.key THEN q.n ELSE cache[k]]

TransportResolve(q, pages) ==
    /\ q.status = "pending"
    /\ requests' = Settle(q, "resolved", pages)
    /\ last' = Event("resolve", NoPromise, FALSE)
    /\ UNCHANGED cache

\* a cache that evicts the entry of a failed transport call
TransportRejectEvicts(q) ==
    /\ q.status = "pending"
    /\ requests' = Settle(q, "rejected", 0)
    /\ last' = Event("reject", NoPromise, FALSE)
    /\ cache' = [k \in {j \in DOMAIN cache : ~(j = q.key /\ cache[j] = q.n)} |-> cache[k]]

TransportReject(q) ==
    /\ q.status = "pending"
    /\ requests' = Settle(q, "rejected", 0)
    /\ last' = Event("reject", NoPromise, FALSE)
    /\ UNCHANGED cache

Next ==
    \/ \E options \in FetchDescriptors :
          FetchData(options) /\ UNCHANGED <<outside, grid, effects, initialData>>
    \/ \E options \in Descriptors :
          PrefetchAdjacentPages(options) /\ UNCHANGED <<outside, grid, effects, initialData>>
    \/ \E initialOptions \in PartialDescriptors :
          PrefetchInitialData(initialOptions) /\ UNCHANGED <<outside, grid, effects, initialData>>
    \/ \E options \in Descriptors :
          InvalidateCache(options) /\ UNCHANGED <<outside, grid, effects, initialData>>
    \/ ClearCache /\ UNCHANGED <<outside, grid, effects, initialData>>
    \/ \E q \in requests, pages \in PageCounts :
          TransportResolve(q, pages) /\ UNCHANGED <<outside, grid, effects, initialData>>
    \/ \E q \in requests :
          TransportReject(q) /\ UNCHANGED <<outside, grid, effects, initialData>>

Spec == Init /\ [][Next]_vars

\* the same cache driven with the pages around the prefetch ceiling
NextCeiling ==
    \/ \E options \in CeilingDescriptors :
          FetchData(options) /\ UNCHANGED <<outside, grid, effects, initialData>>
    \/ \E options \in CeilingDescriptors :
          PrefetchAdjacentPages(options) /\ UNCHANGED <<outside, grid, effects, initialData>>
    \/ \E options \in CeilingDescriptors :
          InvalidateCache(options) /\ UNCHANGED <<outside, grid, effects, initialData>>
    \/ ClearCache /\ UNCHANGED <<outside, grid, effects, initialData>>
    \/ \E q \in requests, pages \in PageCounts :
          TransportResolve(q, pages) /\ UNCHANGED <<outside, grid, effects, initialData>>
    \/ \E q \in requests :
          TransportReject(q) /\ UNCHANGED <<outside, grid, effects, initialData>>

SpecCeiling == Init /\ [][NextCeiling]_vars

\* one caller fetching its descriptor and the variants of it
NextKeys ==
    \/ \E options \in Variants(probe) :
          FetchData(options) /\ UNCHANGED <<outside, grid, effects, initialData>>
    \/ \E q \in requests, pages \in PageCounts :
          TransportResolve(q, pages) /\ UNCHANGED <<outside, grid, effects, initialData>>
    \/ \E q \in requests :
          TransportReject(q) /\ UNCHANGED <<outside, grid, effects, initialData>>

SpecKeys == InitKeys /\ [][NextKeys]_vars

\* the text that the key of two or more column filters reads as, typed into
\* the input of the first filter (ProductTable.tsx:29-33) as one value
TypedAsOne(options) ==
    LET columnFilters == options.columnFilters
        rest == [i \in 1..(Len(columnFilters) - 1) |-> FilterKeyPart(columnFilters[i + 1])]
    IN  IF Len(columnFilters) < 2 THEN options
        ELSE [options EXCEPT !.columnFilters =
                 <<[id |-> columnFilters[1].id,
                    value |-> columnFilters[1].value \o "," \o Join(rest, ",")]>>]

\* one caller fetching its descriptor and the descriptor typed as one value
NextLookalikes ==
    \/ \E options \in {probe, TypedAsOne(probe)} :
          FetchData(options) /\ UNCHANGED <<outside, grid, effects, initialData>>
    \/ \E q \in requests, pages \in PageCounts :
          TransportResolve(q, pages) /\ UNCHANGED <<outside, grid, effects, initialData>>
    \/ \E q \in requests :
          TransportReject(q) /\ UNCHANGED <<outside, grid, effects, initialData>>

SpecLookalikes == InitKeys /\ [][NextLookalikes]_vars

(***************************************************************************)
(* The DataTable component over a provider that owns the cache.            *)
(***************************************************************************)
\* BaseDataProvider.getInitialData (ProductTable.tsx:532-534)
getInitialData == initialData

\* a DataTable was mounted: useState(dataProvider.getInitialData()), the
\* default table state, and the fetch effect of the first render still to run
InitTable ==
    /\ app = NoApp
    /\ debounced = NoDebounced
    /\ other = NoOther
    /\ cache = [k \in {} |-> 0]
    /\ requests = {}
    /\ last = Event("new", NoPromise, FALSE)
    /\ probe = Unsorted(NoPagination)
    /\ rendered = NotRendered(NoFeatures)
    /\ initialData = initialProductResponse
    /\ grid = Grid(TRUE, DefaultTableState, TRUE, initialProductResponse)
    /\ effects = {}

\* DataTable.tsx:129-153: a change handler sets a slice of the table state
ChangeState(options) ==
    /\ grid.mounted
    /\ options # grid.state
    /\ grid' = [grid EXCEPT !.state = options, !.dirty = TRUE]
    /\ UNCHANGED <<cache, requests, last, outside, effects, initialData>>

\* the cleanup of line 176-178 on every run so far
CleanedUp(runs) == {[e EXCEPT !.isMounted = FALSE] : e \in runs}

\* DataTable.tsx:156-179: the dependencies changed, so the previous run is
\* cleaned up and the effect runs: getCurrentData() calls the provider's
\* fetchData with the table state and the run awaits the promise
RunEffect ==
    /\ grid.mounted
    /\ grid.dirty
    /\ Cardinality(effects) < MaxEffects
    /\ FetchData(grid.state)
    /\ effects' = CleanedUp(effects) \cup
                     {[id |-> Cardinality(effects) + 1,
                       options |-> grid.state,
                       promise |-> last'.returned,
                       isMounted |-> TRUE,
                       phase |-> "awaiting"]}
    /\ grid' = [grid EXCEPT !.dirty = FALSE]
    /\ UNCHANGED <<outside, initialData>>

\* the transport call whose outcome the promise p settles with
Awaited(p) == {q \in requests : q.key = p.key /\ q.n = p.n}

\* a continuation that writes the response whatever isMounted says
ResumeUnguarded(e) ==
    /\ e.phase = "awaiting"
    /\ \E q \in Awaited(e.promise) :
          /\ q.status # "pending"
          /\ IF q.status = "resolved"
             THEN /\ grid' = [grid EXCEPT !.currentData = ResponseOf(q)]
                  /\ effects' = (effects \ {e}) \cup {[e EXCEPT !.phase = "applied"]}
             ELSE /\ effects' = (effects \ {e}) \cup {[e EXCEPT !.phase = "failed"]}
                  /\ UNCHANGED grid
    /\ UNCHANGED <<cache, requests, last, outside, initialData>>

\* a continuation that clears the table when the fetch failed
ResumeClearing(e) ==
    /\ e.phase = "awaiting"
    /\ \E q \in Awaited(e.promise) :
          /\ q.status # "pending"
          /\ IF q.status = "resolved"
             THEN IF e.isMounted
                  THEN /\ grid' = [grid EXCEPT !.currentData = ResponseOf(q)]
                       /\ effects' = (effects \ {e}) \cup {[e EXCEPT !.phase = "applied"]}
                  ELSE /\ effects' = (effects \ {e}) \cup {[e EXCEPT !.phase = "discarded"]}
                       /\ UNCHANGED grid
             ELSE /\ effects' = (effects \ {e}) \cup {[e EXCEPT !.phase = "failed"]}
                  /\ grid' = [grid EXCEPT !.currentData = getInitialData]
    /\ UNCHANGED <<cache, requests, last, outside, initialData>>

\* a continuation over a provider that keeps the response it delivered as its
\* initial data
ResumeRemembering(e) ==
    /\ e.phase = "awaiting"
    /\ \E q \in Awaited(e.promise) :
          /\ q.status # "pending"
          /\ IF q.status = "resolved"
             THEN /\ initialData' = ResponseOf(q)
                  /\ IF e.isMounted
                     THEN /\ grid' = [grid EXCEPT !.currentData = ResponseOf(q)]
                          /\ effects' = (effects \ {e}) \cup {[e EXCEPT !.phase = "applied"]}
                     ELSE /\ effects' = (effects \ {e}) \cup {[e EXCEPT !.phase = "discarded"]}
                          /\ UNCHANGED grid
             ELSE /\ effects' = (effects \ {e}) \cup {[e EXCEPT !.phase = "failed"]}
                  /\ UNCHANGED <<grid, initialData>>
    /\ UNCHANGED <<cache, requests, last, outside>>

\* DataTable.tsx:164-167: the awaited promise settled and the run resumes:
\* `if (isMounted) setCurrentData(result)`; a rejection leaves the async
\* callback without a write.  The try statement of lines 159-170 encloses
\* the call of startTransition only: it was left when the effect ran, so a
\* rejection at the await rejects the promise of the async callback
\* (phase "failed") and does not enter the catch block
Resume(e) ==
    /\ e.phase = "awaiting"
    /\ \E q \in Awaited(e.promise) :
          /\ q.status # "pending"
          /\ IF q.status = "resolved"
             THEN IF e.isMounted
                  THEN /\ grid' = [grid EXCEPT !.currentData = ResponseOf(q)]
                       /\ effects' = (effects \ {e}) \cup {[e EXCEPT !.phase = "applied"]}
                  ELSE /\ effects' = (effects \ {e}) \cup {[e EXCEPT !.phase = "discarded"]}
                       /\ UNCHANGED grid
             ELSE /\ effects' = (effects \ {e}) \cup {[e EXCEPT !.phase = "failed"]}
                  /\ UNCHANGED grid
    /\ UNCHANGED <<cache, requests, last, outside, initialData>>

\* the component unmounts: the cleanup of the last run (lines 176-178)
Unmount ==
    /\ grid.mounted
    /\ grid' = [grid EXCEPT !.mounted = FALSE]
    /\ effects' = CleanedUp(effects)
    /\ UNCHANGED <<cache, requests, last, outside, initialData>>

NextTable ==
    \/ \E options \in GridStates : ChangeState(options)
    \/ RunEffect
    \/ \E e \in effects : Resume(e)
    \/ Unmount
    \/ \E options \in InvalidatedAfterEdit :
          InvalidateCache(options) /\ UNCHANGED <<outside, grid, effects, initialData>>
    \/ \E q \in requests, pages \in PageCounts :
          TransportResolve(q, pages) /\ UNCHANGED <<outside, grid, effects, initialData>>
    \/ \E q \in requests :
          TransportReject(q) /\ UNCHANGED <<outside, grid, effects, initialData>>

SpecTable == InitTable /\ [][NextTable]_vars

\* React runs a pending effect, a settled promise resumes its awaiters and
\* the transport settles every call; the user and the unmounting are free
SpecTableFair ==
    /\ InitTable
    /\ [][NextTable]_vars
    /\ WF_vars(RunEffect)
    /\ WF_vars(\E e \in effects : Resume(e))
    /\ WF_vars(\E q \in requests, pages \in PageCounts :
                  TransportResolve(q, pages)
                  /\ UNCHANGED <<outside, grid, effects, initialData>>)

(***************************************************************************)
(* The options a DataTable builds from its features prop.                  *)
(***************************************************************************)
InitFeatures ==
    /\ app = NoApp
    /\ debounced = NoDebounced
    /\ other = NoOther
    /\ cache = [k \in {} |-> 0]
    /\ requests = {}
    /\ last = Event("new", NoPromise, FALSE)
    /\ probe = Unsorted(NoPagination)
    /\ grid = NoGrid
    /\ effects = {}
    /\ initialData = initialProductResponse
    /\ rendered \in {NotRendered(given) : given \in FeatureInputs}

\* DataTable.tsx:62-242: the component renders and builds the table options
Render ==
    /\ rendered.options = <<>>
    /\ rendered' = [rendered EXCEPT
                       !.options = <<TableOptionsOf(FeaturesParameter(rendered.features))>>]
    /\ UNCHANGED <<cache, requests, last, probe, grid, effects, initialData,
                   app, debounced, other>>

NextFeatures == Render

SpecFeatures == InitFeatures /\ [][NextFeatures]_vars

(***************************************************************************)
(* The App component: options state, the primary fetch of every render and *)
(* the effect that prefetches the adjacent pages (App.tsx).                *)
(***************************************************************************)
\* what App does not touch
offPage == <<probe, rendered, debounced, other, grid, effects, initialData>>

ByFirstNameDesc == <<[id |-> "first_name", desc |-> TRUE]>>

\* the pages, orders and searches the user moves between
AppPages == 0..2

AppSortings == {ByFirstName, ByFirstNameDesc}

AppSearches == {"", "ann"}

\* an effect that depends on the sorting as well as on the page index
DepsOfPageAndSorting(options) ==
    (IF HasPagination(options) THEN PageIndexOf(options) ELSE Undefined)
    + (IF options.sorting = ByFirstName THEN 0 ELSE 1000)

\* options.pagination?.pageIndex, the dependency of the effect (line 44)
DepsOf(options) ==
    IF HasPagination(options) THEN PageIndexOf(options) ELSE Undefined

InitApp ==
    /\ cache = [k \in {} |-> 0]
    /\ requests = {}
    /\ last = Event("new", NoPromise, FALSE)
    /\ probe = Unsorted(NoPagination)
    /\ rendered = NotRendered(NoFeatures)
    /\ grid = NoGrid
    /\ effects = {}
    /\ initialData = initialProductResponse
    /\ debounced = NoDebounced
    /\ other = NoOther
    /\ app = NoApp

\* PersonTable.tsx:37-39
fetchUsers(options) ==
    LET result == fetchData(cache, requests, options, "caller")
    IN  /\ cache' = result.cache
        /\ requests' = result.requests
        /\ last' = Event("fetchData", result.returned, result.hit)

\* PersonTable.tsx:42-44
prefetchAdjacentPages(currentOptions) ==
    LET result == FetchAll(cache, requests, AdjacentPages(currentOptions), "prefetch")
    IN  /\ cache' = result.cache
        /\ requests' = result.requests
        /\ last' = Event("prefetchAdjacentPages", NoPromise, FALSE)

\* App renders with the given options state: the render calls
\* fetchUsers(options) (line 32)
RenderApp(options) ==
    /\ app.renders < MaxRenders
    /\ fetchUsers(options)
    /\ app' = [app EXCEPT !.mounted = TRUE, !.options = options,
                          !.renders = @ + 1]
    /\ UNCHANGED offPage

\* the first render
MountApp ==
    /\ ~app.mounted
    /\ app.renders = 0
    /\ RenderApp(AppInitialOptions)

\* React runs the effects of a render before it renders again
EffectPending == app.mounted /\ app.deps # DepsOf(app.options)

\* App.tsx:26-30: updateOptions(updater) sets the options state and App
\* renders again
updateOptions(options) ==
    /\ app.mounted
    /\ ~EffectPending
    /\ RenderApp(options)

\* App.tsx:63-68
onPaginationChange(pageIndex) ==
    updateOptions([app.options EXCEPT
                      !.pagination = Page(pageIndex, PageSizeOf(app.options))])

\* App.tsx:69-75
onSortingChange(sorting) ==
    updateOptions([app.options EXCEPT !.sorting = sorting])

\* App.tsx:76-82
onGlobalFilterChange(globalFilter) ==
    updateOptions([app.options EXCEPT
                      !.pagination = Page(0, PageSizeOf(app.options)),
                      !.globalFilter = globalFilter])

\* App.tsx:83-89
onColumnFiltersChange(columnFilters) ==
    updateOptions([app.options EXCEPT
                      !.pagination = Page(0, PageSizeOf(app.options)),
                      !.columnFilters = columnFilters])

\* clearTimeout(timeoutId)
Cleared(timers, timeoutId) == {t \in timers : t.id # timeoutId}

\* an effect whose runs leave the timeout of the previous run pending
PrefetchEffectKeepsTimer ==
    /\ EffectPending
    /\ app' = IF HasPagination(app.options)
              THEN [app EXCEPT
                       !.deps = DepsOf(app.options),
                       !.made = @ + 1,
                       !.timeoutId = app.made + 1,
                       !.timers = app.timers \cup
                                  {[id |-> app.made + 1, options |-> app.options]}]
              ELSE [app EXCEPT !.deps = DepsOf(app.options), !.timeoutId = 0]
    /\ UNCHANGED <<cache, requests, last, offPage>>

\* App.tsx:35-44: the page index of the render differs from that of the
\* last run, so the cleanup of the last run clears its timeout (line 42) and
\* the effect sets a timeout whose callback holds the options of this render
PrefetchEffect ==
    /\ EffectPending
    /\ app' = IF HasPagination(app.options)
              THEN [app EXCEPT
                       !.deps = DepsOf(app.options),
                       !.made = @ + 1,
                       !.timeoutId = app.made + 1,
                       !.timers = Cleared(app.timers, app.timeoutId) \cup
                                  {[id |-> app.made + 1, options |-> app.options]}]
              ELSE [app EXCEPT
                       !.deps = DepsOf(app.options),
                       !.timeoutId = 0,
                       !.timers = Cleared(app.timers, app.timeoutId)]
    /\ UNCHANGED <<cache, requests, last, offPage>>

\* App.tsx:38-40: 100 ms passed since the timeout t was set and nothing
\* cleared it, so its callback runs
TimerFires(t) ==
    /\ t \in app.timers
    /\ prefetchAdjacentPages(t.options)
    /\ app' = [app EXCEPT !.timers = app.timers \ {t}]
    /\ UNCHANGED offPage

\* App unmounts: the cleanup of the last run of the effect (line 42)
UnmountApp ==
    /\ app.mounted
    /\ app' = [app EXCEPT !.mounted = FALSE,
                          !.timers = Cleared(app.timers, app.timeoutId)]
    /\ UNCHANGED <<cache, requests, last, offPage>>

NextApp ==
    \/ MountApp
    \/ \E pageIndex \in AppPages : onPaginationChange(pageIndex)
    \/ \E sorting \in AppSortings : onSortingChange(sorting)
    \/ \E globalFilter \in AppSearches : onGlobalFilterChange(globalFilter)
    \/ \E columnFilters \in {<<>>, InCategory} : onColumnFiltersChange(columnFilters)
    \/ PrefetchEffect
    \/ \E t \in app.timers : TimerFires(t)
    \/ UnmountApp
    \/ \E q \in requests, pages \in PageCounts :
          TransportResolve(q, pages) /\ UNCHANGED <<outside, grid, effects, initialData>>

SpecApp == InitApp /\ [][NextApp]_vars

(***************************************************************************)
(* Two providers: the one the table holds (ProductDataProvider.ts:234-236) *)
(* with its DataCache in `cache`, and the one that the module function     *)
(* prefetchInitialData constructs (lines 118-121) with its DataCache in    *)
(* `other`.  `shared` tells whether the entry map of the second is the     *)
(* object that the first one uses.                                         *)
(***************************************************************************)
\* a factory that hands every instance one module-wide entry map
createDataCacheStatic(made) ==
    [made |-> made + 1, shared |-> TRUE, cache |-> [k \in {} |-> 0]]

\* dataCache.ts:161-167 and 13: every instance is constructed with a Map of
\* its own
createDataCache(made) ==
    [made |-> made + 1, shared |-> FALSE, cache |-> [k \in {} |-> 0]]

\* the entry map that instance o reads and writes
EntriesOf(o) == IF o.shared THEN cache ELSE o.cache

\* instance o after a method left its entry map as entries
Written(o, entries) ==
    /\ other' = IF o.shared THEN o ELSE [o EXCEPT !.cache = entries]
    /\ cache' = IF o.shared THEN entries ELSE cache

\* what a method of the second provider leaves alone
offOther == <<probe, rendered, app, debounced, grid, effects, initialData>>

\* ProductDataProvider.ts:73-77: the partial descriptor the provider passes
InitialProductOptions == Sorted(NoPagination)

\* ProductDataProvider.ts:118-121: a provider is constructed and its
\* prefetchInitialData is called
ModulePrefetchInitialData ==
    LET provider == createDataCache(other.made)
        result == fetchData(EntriesOf(provider), requests,
                            MergeInitial(InitialProductOptions), "caller")
    IN  /\ Cardinality(result.requests) <= MaxCalls
        /\ Written(provider, result.cache)
        /\ requests' = result.requests
        /\ last' = Event("prefetchInitialData", result.returned, result.hit)
        /\ UNCHANGED offOther

\* fetchData on the second provider
OtherFetchData(options) ==
    LET result == fetchData(EntriesOf(other), requests, options, "caller")
    IN  /\ other.made > 0
        /\ Cardinality(result.requests) <= MaxCalls
        /\ Written(other, result.cache)
        /\ requests' = result.requests
        /\ last' = Event("fetchData", result.returned, result.hit)
        /\ UNCHANGED offOther

\* invalidateCache on the second provider
OtherInvalidateCache(options) ==
    LET cacheKey == getCacheKey(options)
    IN  /\ other.made > 0
        /\ Written(other, Remove(EntriesOf(other), {cacheKey}))
        /\ requests' = MarkRemoved(EntriesOf(other), requests, {cacheKey})
        /\ last' = Event("invalidateCache", NoPromise, FALSE)
        /\ UNCHANGED offOther

\* clearCache on the second provider
OtherClearCache ==
    /\ other.made > 0
    /\ Written(other, Remove(EntriesOf(other), DOMAIN EntriesOf(other)))
    /\ requests' = MarkRemoved(EntriesOf(other), requests, DOMAIN EntriesOf(other))
    /\ last' = Event("clearCache", NoPromise, FALSE)
    /\ UNCHANGED offOther

\* the descriptors the two providers are used with: the first page that
\* prefetchInitialData warms, and the page after it
InstanceDescriptors ==
    {MergeInitial(InitialProductOptions), Sorted(Page(1, DefaultPageSize))}

\* a method of the provider of the table
OnTable ==
    \/ \E options \in InstanceDescriptors :
          FetchData(options) /\ UNCHANGED <<outside, grid, effects, initialData>>
    \/ PrefetchInitialData(InitialProductOptions)
          /\ UNCHANGED <<outside, grid, effects, initialData>>
    \/ \E options \in InstanceDescriptors :
          InvalidateCache(options) /\ UNCHANGED <<outside, grid, effects, initialData>>
    \/ ClearCache /\ UNCHANGED <<outside, grid, effects, initialData>>

\* a method of the second provider
OnOther ==
    \/ ModulePrefetchInitialData
    \/ \E options \in InstanceDescriptors : OtherFetchData(options)
    \/ \E options \in InstanceDescriptors : OtherInvalidateCache(options)
    \/ OtherClearCache

NextInstances ==
    \/ OnTable
    \/ OnOther
    \/ \E q \in requests, pages \in PageCounts :
          TransportResolve(q, pages) /\ UNCHANGED <<outside, grid, effects, initialData>>

SpecInstances == Init /\ [][NextInstances]_vars

(***************************************************************************)
(* One function returned by debounce(func, delay) (utils.tsx:1-10), on a   *)
(* clock that counts in units of time.  A timeout runs when its delay has  *)
(* passed, before the clock goes on and before a call made at that time.   *)
(***************************************************************************)
\* the delay given to debounce, in units of the clock
Delay == 2

\* the arguments the function is called with
DebouncedArgs == {"a", "b"}

\* what the debounced function does not touch
offDebounced ==
    <<cache, requests, last, probe, rendered, app, other, grid, effects,
      initialData>>

\* a timeout whose delay has passed is waiting to run
TimeoutDue == \E t \in debounced.timers : t.due <= debounced.now

\* a debounced function that sets its timeout without clearing the last one
DebouncedCallKeepsTimer(args) ==
    /\ Len(debounced.calls) < MaxDebounced
    /\ ~TimeoutDue
    /\ debounced' =
          [debounced EXCEPT
              !.made = @ + 1,
              !.timeoutId = debounced.made + 1,
              !.timers = debounced.timers \cup
                         {[id |-> debounced.made + 1,
                           due |-> debounced.now + Delay,
                           args |-> args]},
              !.calls = Append(@, [at |-> debounced.now, args |-> args])]
    /\ UNCHANGED offDebounced

\* utils.tsx:3-9: the function that debounce returns is called with args:
\* clearTimeout(timeoutId), then timeoutId = setTimeout(() => func(...args),
\* delay)
DebouncedCall(args) ==
    /\ Len(debounced.calls) < MaxDebounced
    /\ ~TimeoutDue
    /\ debounced' =
          [debounced EXCEPT
              !.made = @ + 1,
              !.timeoutId = debounced.made + 1,
              !.timers = Cleared(debounced.timers, debounced.timeoutId) \cup
                         {[id |-> debounced.made + 1,
                           due |-> debounced.now + Delay,
                           args |-> args]},
              !.calls = Append(@, [at |-> debounced.now, args |-> args])]
    /\ UNCHANGED offDebounced

\* utils.tsx:5-7: the timeout t runs: func(...args)
TimeoutRuns(t) ==
    /\ t \in debounced.timers
    /\ t.due <= debounced.now
    /\ debounced' =
          [debounced EXCEPT
              !.timers = debounced.timers \ {t},
              !.invoked = Append(@, [at |-> debounced.now, args |-> t.args])]
    /\ UNCHANGED offDebounced

\* a unit of time passes
Tick ==
    /\ debounced.now < MaxClock
    /\ ~TimeoutDue
    /\ debounced' = [debounced EXCEPT !.now = @ + 1]
    /\ UNCHANGED offDebounced

NextDebounce ==
    \/ \E args \in DebouncedArgs : DebouncedCall(args)
    \/ \E t \in debounced.timers : TimeoutRuns(t)
    \/ Tick

SpecDebounce == Init /\ [][NextDebounce]_vars

(***************************************************************************)
(* Properties.                                                             *)
(***************************************************************************)
AllDescriptors == FetchDescriptors \cup CeilingDescriptors

CallCount(rq, cacheKey) == Cardinality(CallsFor(rq, cacheKey))

KeysCalled(rq) == {q.key : q \in rq}

\* the transport call a promise settles with
Target(p) == CHOOSE q \in requests : q.key = p.key /\ q.n = p.n

Pending(rq, cacheKey) == {q \in CallsFor(rq, cacheKey) : q.status = "pending"}

\* C1: while the entry of a key stays in the map no step makes a transport
\* call for that key, and a fetchData call makes exactly one transport call
\* when the key is absent and none when it is present.
RequestCoalescing ==
    [][/\ \A k \in DOMAIN cache :
            CallCount(requests', k) = CallCount(requests, k)
       /\ \A D \in AllDescriptors : FetchData(D) =>
            LET k == getCacheKey(D)
            IN  /\ k \in DOMAIN cache'
                /\ last'.hit = (k \in DOMAIN cache)
                /\ CallCount(requests', k) =
                      IF k \in DOMAIN cache THEN CallCount(requests, k)
                      ELSE CallCount(requests, k) + 1]_vars

\* a second fetchData call arrived while the first call's transport request
\* was still pending, and the key still has a single transport call
CoalescedWhilePending ==
    /\ last.op = "fetchData"
    /\ last.hit
    /\ Target(last.returned).status = "pending"
    /\ Target(last.returned).via = "caller"
    /\ CallCount(requests, last.returned.key) = 1

\* C2 as stated: the promise object handed to a fetchData caller is the
\* promise object stored in the map under the key.
ReturnsStoredObject ==
    last.op = "fetchData" =>
        /\ last.returned.key \in DOMAIN cache
        /\ last.returned = StoredPromise(last.returned.key, cache[last.returned.key])

\* C2 amended: the promise handed to a fetchData caller is the async
\* function's own promise, and it adopts the promise that is stored in the map
\* under the key, so two calls made before the first settles follow one and
\* the same stored promise.
ReturnsFollowerOfStored ==
    last.op = "fetchData" =>
        /\ last.returned.key \in DOMAIN cache
        /\ last.returned.kind = "async"
        /\ last.returned =
              AsyncReturn(StoredPromise(last.returned.key, cache[last.returned.key]))
        /\ \E q \in requests : q.key = last.returned.key /\ q.n = last.returned.n

\* the second of two calls, made before the first settled
SecondCallerFollowsPending ==
    /\ last.op = "fetchData"
    /\ last.hit
    /\ last.returned.kind = "async"
    /\ Target(last.returned).status = "pending"

\* C3 as stated: at most one issued and unsettled transport request per key.
OneInFlightPerKey ==
    \A k \in KeysCalled(requests) : Cardinality(Pending(requests, k)) <= 1

\* C3 amended: per key at most one unsettled transport request belongs to an
\* entry that was not removed; every other unsettled request of the key had
\* its entry removed by invalidateCache or clearCache while it was pending.
OneInFlightPerLiveEntry ==
    \A k \in KeysCalled(requests) :
        /\ Cardinality({q \in Pending(requests, k) : ~q.removed}) <= 1
        /\ \A q \in Pending(requests, k) :
              ~q.removed => k \in DOMAIN cache /\ cache[k] = q.n

\* two requests of one key in flight: one orphaned by a removal, one stored
OrphanAndLiveInFlight ==
    \E k \in KeysCalled(requests) :
        /\ \E q \in Pending(requests, k) : q.removed
        /\ \E q \in Pending(requests, k) : ~q.removed

\* the promise stored under a key of the map
StoredCall(c, rq, cacheKey) ==
    CHOOSE q \in rq : q.key = cacheKey /\ q.n = c[cacheKey]

RejectedKeys == {k \in DOMAIN cache : StoredCall(cache, requests, k).status = "rejected"}

Removed(rq, cacheKey) == {q \in CallsFor(rq, cacheKey) : q.removed}

\* C4: an entry whose transport call rejected stays as it is: no step but
\* invalidateCache of its key or clearCache removes it, no step makes a new
\* transport call for its key, and a fetchData on it is a hit that hands out
\* the rejected promise.  A fetchData on an absent key makes exactly one
\* transport call, so the calls of a key number its removed entries plus
\* one if it has an entry.
FailureStaysCached ==
    [][/\ \A k \in RejectedKeys :
            /\ k \in DOMAIN cache' =>
                  /\ cache'[k] = cache[k]
                  /\ CallCount(requests', k) = CallCount(requests, k)
                  /\ StoredCall(cache', requests', k) = StoredCall(cache, requests, k)
            /\ k \notin DOMAIN cache' =>
                  \/ ClearCache
                  \/ \E D \in AllDescriptors :
                        getCacheKey(D) = k /\ InvalidateCache(D)
       /\ \A D \in AllDescriptors : FetchData(D) =>
            LET k == getCacheKey(D)
            IN  /\ k \in RejectedKeys =>
                      /\ last'.hit
                      /\ last'.returned = AsyncReturn(StoredPromise(k, cache[k]))
                      /\ requests' = requests
                /\ k \notin DOMAIN cache =>
                      CallCount(requests', k) = CallCount(requests, k) + 1
       /\ \A k \in KeysCalled(requests) :
            CallCount(requests, k) =
               Cardinality(Removed(requests, k))
               + (IF k \in DOMAIN cache THEN 1 ELSE 0)]_vars

\* a failed key was fetched again (a hit on the rejected promise), then
\* invalidated and fetched anew: its second transport call
RetriedAfterInvalidate ==
    /\ last.op = "fetchData"
    /\ ~last.hit
    /\ last.returned.n = 2
    /\ \E q \in Removed(requests, last.returned.key) :
          q.n = 1 /\ q.status = "rejected"

\* C5: after invalidateCache(D) the key of D is absent, after clearCache every
\* key is absent, and a fetchData on such a key makes a new transport call
\* and stores a new, pending entry.
MissAfterRemoval ==
    [][/\ \A D \in AllDescriptors : InvalidateCache(D) =>
            LET again == fetchData(cache', requests', D, "caller")
            IN  /\ getCacheKey(D) \notin DOMAIN cache'
                /\ ~again.hit
                /\ Cardinality(again.requests) = Cardinality(requests') + 1
       /\ ClearCache =>
            /\ DOMAIN cache' = {}
            /\ \A D \in AllDescriptors :
                  LET again == fetchData(cache', requests', D, "caller")
                  IN  /\ ~again.hit
                      /\ Cardinality(again.requests) = Cardinality(requests') + 1
       /\ \A D \in AllDescriptors :
            (FetchData(D) /\ getCacheKey(D) \notin DOMAIN cache) =>
               LET k == getCacheKey(D)
               IN  /\ ~last'.hit
                   /\ k \in DOMAIN cache'
                   /\ cache'[k] = CallCount(requests, k) + 1
                   /\ StoredCall(cache', requests', k).status = "pending"
                   /\ StoredCall(cache', requests', k) \notin requests]_vars

\* a key whose entry was removed is fetched again: a new transport call and
\* a new entry
RefetchedAfterRemoval ==
    /\ last.op = "fetchData"
    /\ ~last.hit
    /\ last.returned.n > 1
    /\ last.returned.key \in DOMAIN cache
    /\ Removed(requests, last.returned.key) # {}

\* C6: invalidateCache(D) removes the entry under the key of D and nothing
\* else, makes no transport call and changes no transport call's state; with
\* the key absent the map is unchanged, so a second invalidateCache(D)
\* changes nothing.
InvalidateRemovesOneEntry ==
    [][\A D \in AllDescriptors : InvalidateCache(D) =>
          LET k == getCacheKey(D)
          IN  /\ DOMAIN cache' = DOMAIN cache \ {k}
              /\ \A j \in DOMAIN cache \ {k} : cache'[j] = cache[j]
              /\ {[key |-> q.key, n |-> q.n, status |-> q.status] : q \in requests'}
                    = {[key |-> q.key, n |-> q.n, status |-> q.status] : q \in requests}
              /\ k \notin DOMAIN cache => cache' = cache /\ requests' = requests
              /\ Remove(cache', {k}) = cache']_vars

\* an entry was invalidated while the entry of another key stayed
InvalidatedBesideOther ==
    /\ last.op = "invalidateCache"
    /\ DOMAIN cache # {}
    /\ \E q \in requests : q.removed /\ q.key \notin DOMAIN cache

Paginated == {D \in AllDescriptors : HasPagination(D)}

\* the page indices of a sequence of descriptors
PageIndices(optionsSeq) == {PageIndexOf(optionsSeq[i]) : i \in 1..Len(optionsSeq)}

\* the transport calls a step has added
Issued == {q \in requests' : CallCount(requests, q.key) < q.n}

\* C7: below the ceiling prefetchAdjacentPages(D) hands to fetchData exactly
\* the descriptors that are D with page index p+1 and, when p > 0, p-1: their
\* keys are in the map afterwards, every transport call the step makes is for
\* one of them, none is for page p and none has a negative page index.
PrefetchesExactlyNeighbours ==
    [][\A D \in Paginated :
          (PageIndexOf(D) >= 0 /\ PageIndexOf(D) < 1000 /\ PrefetchAdjacentPages(D)) =>
             LET p == PageIndexOf(D)
                 fetched == AdjacentPages(D)
                 expected == IF p = 0 THEN {p + 1} ELSE {p - 1, p + 1}
             IN  /\ PageIndices(fetched) = expected
                 /\ Len(fetched) = Cardinality(expected)
                 /\ \A i \in 1..Len(fetched) :
                       /\ fetched[i].sorting = D.sorting
                       /\ fetched[i].columnFilters = D.columnFilters
                       /\ fetched[i].globalFilter = D.globalFilter
                       /\ fetched[i].extra = D.extra
                       /\ PageSizeOf(fetched[i]) = PageSizeOf(D)
                       /\ PageIndexOf(fetched[i]) >= 0
                       /\ getCacheKey(fetched[i]) \in DOMAIN cache'
                 /\ \A q \in Issued :
                       /\ q.via = "prefetch"
                       /\ \E i \in 1..Len(fetched) :
                             /\ q.key = getCacheKey(fetched[i])
                             /\ q.url = BuildUrl(fetched[i])
                       /\ q.key # getCacheKey(D)
                 /\ CallCount(requests', getCacheKey(D)) =
                       CallCount(requests, getCacheKey(D))]_vars

\* both neighbours of the sorted page 1 were prefetched and page 1 itself
\* was never fetched
BothNeighboursPrefetched ==
    /\ last.op = "prefetchAdjacentPages"
    /\ \A i \in {0, 2} :
          \E q \in requests :
             /\ q.key = getCacheKey(Sorted(Page(i, DefaultPageSize)))
             /\ q.via = "prefetch"
             /\ q.key \in DOMAIN cache
    /\ getCacheKey(Sorted(Page(1, DefaultPageSize))) \notin KeysCalled(requests)

\* C8: prefetchAdjacentPages(D) hands page p+1 to fetchData exactly when
\* p < 1000, whatever page count a response has reported; from p >= 1000 it
\* hands over page p-1 alone and the step neither stores nor requests page
\* p+1; from a page below the ceiling no descriptor with a page index above
\* 1000 is fetched.
ForwardPrefetchBelowCeiling ==
    [][\A D \in Paginated : PrefetchAdjacentPages(D) =>
          LET p == PageIndexOf(D)
              fetched == AdjacentPages(D)
              forward == getCacheKey(WithPage(D, p + 1, PageSizeOf(D)))
          IN  /\ (p + 1 \in PageIndices(fetched)) <=> (p < 1000)
              /\ p < 1000 =>
                    /\ forward \in DOMAIN cache'
                    /\ \A i \in PageIndices(fetched) : i <= 1000
              /\ p >= 1000 =>
                    /\ fetched = <<WithPage(D, p - 1, PageSizeOf(D))>>
                    /\ \A q \in Issued : q.key # forward
                    /\ forward \in DOMAIN cache' <=> forward \in DOMAIN cache]_vars

\* the response for page 999 reported a single page, and the prefetch from
\* page 999 still requested page 1000
ForwardPrefetchDespitePageCount ==
    /\ last.op = "prefetchAdjacentPages"
    /\ \E q \in requests :
          /\ q.key = getCacheKey(Unsorted(Page(999, DefaultPageSize)))
          /\ q.status = "resolved"
          /\ q.pages = 1
    /\ \E q \in requests :
          /\ q.key = getCacheKey(Unsorted(Page(1000, DefaultPageSize)))
          /\ q.via = "prefetch"
          /\ q.status = "pending"

\* C9: no fetchData caller is handed a promise that rejects with the failure
\* of a transport call that prefetchAdjacentPages issued.
PrefetchFailureNotObserved ==
    ~(/\ last.op = "fetchData"
      /\ Target(last.returned).via = "prefetch"
      /\ Target(last.returned).status = "rejected")

\* the neighbours of D as C10 states them: page p+1, and page p-1 if it exists
Neighbours(D) ==
    {WithPage(D, PageIndexOf(D) + 1, PageSizeOf(D))}
    \cup (IF PageIndexOf(D) > 0
          THEN {WithPage(D, PageIndexOf(D) - 1, PageSizeOf(D))} ELSE {})

\* the neighbours the prefetch covers: page p+1 below the ceiling only
CoveredNeighbours(D) ==
    {N \in Neighbours(D) : PageIndexOf(N) = PageIndexOf(D) + 1 => PageIndexOf(D) < 1000}

\* a fetchData(N) made in the state a step leads to would be a hit on the
\* stored promise and make no transport call
WouldHit(N) ==
    LET next == fetchData(cache', requests', N, "caller")
        k == getCacheKey(N)
    IN  /\ k \in DOMAIN cache'
        /\ next.hit
        /\ next.requests = requests'
        /\ next.cache = cache'
        /\ next.returned = AsyncReturn(StoredPromise(k, cache'[k]))

\* a fetchData step on a key stored by a prefetch is a hit: no transport
\* call, and the promise handed out follows the prefetch's call, pending or
\* settled
HitsPrefetched ==
    \A N \in AllDescriptors :
       (/\ FetchData(N)
        /\ getCacheKey(N) \in DOMAIN cache
        /\ StoredCall(cache, requests, getCacheKey(N)).via = "prefetch") =>
          /\ last'.hit
          /\ requests' = requests
          /\ cache' = cache
          /\ last'.returned =
                AsyncReturn(StoredPromise(getCacheKey(N), cache[getCacheKey(N)]))
          /\ StoredCall(cache', requests', getCacheKey(N)) =
                StoredCall(cache, requests, getCacheKey(N))

\* C10 as stated: after prefetchAdjacentPages(D) a fetchData for page p+1 or
\* page p-1 is a cache hit.
PrefetchWarmsNeighbours ==
    [][/\ \A D \in Paginated :
            PrefetchAdjacentPages(D) => \A N \in Neighbours(D) : WouldHit(N)
       /\ HitsPrefetched]_vars

\* C10 amended: after prefetchAdjacentPages(D) a fetchData for page p-1
\* (p > 0) or for page p+1 when p < 1000 is a cache hit that makes no
\* transport call and follows the stored call.
PrefetchWarmsCoveredNeighbours ==
    [][/\ \A D \in Paginated :
            PrefetchAdjacentPages(D) => \A N \in CoveredNeighbours(D) : WouldHit(N)
       /\ HitsPrefetched]_vars

\* a fetchData caller hit the entry a prefetch had stored, after the
\* prefetch's transport call had resolved
HitOnPrefetchedPage ==
    /\ last.op = "fetchData"
    /\ last.hit
    /\ Target(last.returned).via = "prefetch"
    /\ Target(last.returned).status = "resolved"

\* C11: prefetchAdjacentPages on a descriptor without pagination is a no-op:
\* the entry map is left as it was and no transport call is made.
PrefetchWithoutPaginationIsNoOp ==
    [][\A D \in AllDescriptors :
          (~HasPagination(D) /\ PrefetchAdjacentPages(D))
              => /\ cache' = cache
                 /\ requests' = requests]_vars

\* an unpaginated prefetch ran on the empty cache and nothing was issued
PrefetchedWithoutPagination ==
    /\ last.op = "prefetchAdjacentPages"
    /\ requests = {}
    /\ DOMAIN cache = {}

\* C12: prefetchInitialData(P) changes the cache exactly as fetchData of P
\* merged over the default pagination does and returns that call's future;
\* without pagination in P the entry lies under the page-0/size-10 key, and
\* a fetchData of the merged descriptor that follows is a hit making no
\* transport call.
PrefetchInitialIsFetchOfMerged ==
    [][\A P \in PartialDescriptors :
          PrefetchInitialData(P)
              => LET given == P.pagination
                     merged ==
                         Options(P.sorting,
                                 Page(IF given = <<>> \/ given[1].pageIndex = <<>>
                                      THEN 0 ELSE given[1].pageIndex[1],
                                      IF given = <<>> \/ given[1].pageSize = <<>>
                                      THEN 10 ELSE given[1].pageSize[1]),
                                 P.columnFilters, P.globalFilter, P.extra)
                     call == fetchData(cache, requests, merged, "caller")
                     again == fetchData(cache', requests', merged, "caller")
                 IN  /\ cache' = call.cache
                     /\ requests' = call.requests
                     /\ last'.returned = call.returned
                     /\ last'.hit = call.hit
                     /\ getCacheKey(merged) \in DOMAIN cache'
                     /\ (~HasPagination(P)
                            => getCacheKey(WithPage(P, 0, 10)) \in DOMAIN cache')
                     /\ again.hit
                     /\ again.requests = requests']_vars

\* prefetchInitialData without pagination created the only entry, under the
\* page-0/size-10 key
InitialPagePrefetched ==
    /\ last.op = "prefetchInitialData"
    /\ ~last.hit
    /\ DOMAIN cache = {getCacheKey(Unsorted(Page(0, 10)))}
    /\ KeysCalled(requests) = DOMAIN cache

\* C13: the key fetchData stores and looks up is endpoint|sortSeg|pageSeg|
\* filterSeg|columnFilterSeg, followed by |extraSeg only when the descriptor
\* has a key besides sorting, pagination, columnFilters and globalFilter;
\* sortSeg joins "<id>:<desc>" with ",", pageSeg is "page=<index>,size=<size>",
\* filterSeg is the global filter, columnFilterSeg joins "<id>:<value>" with
\* ",".  The descriptor sorted by name ascending on page 0 of size 10 has the
\* key "products|name:false|page=0,size=10||".
KeyIsReferenceKey ==
    [][\A D \in Variants(probe) :
          FetchData(D)
              => LET sortSeg ==
                         Join([i \in 1..Len(D.sorting) |->
                                 D.sorting[i].id \o ":" \o
                                 (IF D.sorting[i].desc THEN "true" ELSE "false")], ",")
                     index == IF HasPagination(D) THEN PageIndexOf(D) ELSE 0
                     size == IF HasPagination(D) THEN PageSizeOf(D) ELSE 10
                     pageSeg == "page=" \o ToString(index) \o ",size=" \o ToString(size)
                     filterSeg == D.globalFilter
                     columnFilterSeg ==
                         Join([i \in 1..Len(D.columnFilters) |->
                                 D.columnFilters[i].id \o ":" \o
                                 D.columnFilters[i].value], ",")
                     extraSeg ==
                         Join([i \in 1..Len(D.extra) |->
                                 D.extra[i].key \o ":" \o
                                 (IF D.extra[i].value.type = "number"
                                  THEN ToString(D.extra[i].value.n)
                                  ELSE "\"" \o D.extra[i].value.s \o "\"")], "|")
                     reference ==
                         "products" \o "|" \o sortSeg \o "|" \o pageSeg \o "|"
                         \o filterSeg \o "|" \o columnFilterSeg
                         \o (IF Len(D.extra) > 0 THEN "|" \o extraSeg ELSE "")
                 IN  /\ getCacheKey(D) = reference
                     /\ reference \in DOMAIN cache'
                     /\ \A q \in requests' \ requests : q.key = reference
                     /\ getCacheKey(Sorted(Page(0, 10)))
                            = "products|name:false|page=0,size=10||"]_vars

\* a descriptor with every field set was fetched under its full key
FullKeyFetched ==
    \E q \in requests :
        q.key = "products|name:false,price:true|page=2,size=25|saw|category:tools,brand:acme|tenant:7|view:\"grid\""

\* D and E hold the same two distinct sorting entries, or the same two
\* distinct column filters, in opposite order and are otherwise equal
OppositeOrder(D, E) ==
    \/ /\ Len(D.sorting) = 2
       /\ D.sorting[1] # D.sorting[2]
       /\ E = [D EXCEPT !.sorting = <<D.sorting[2], D.sorting[1]>>]
    \/ /\ Len(D.columnFilters) = 2
       /\ D.columnFilters[1] # D.columnFilters[2]
       /\ E = [D EXCEPT !.columnFilters = <<D.columnFilters[2], D.columnFilters[1]>>]

\* the text holds one of the characters the key joins its parts with
Punctuated(text) == \E i \in 1..Len(text) : SubSeq(text, i, i) \in {",", ":"}

\* no id and no filter value of the descriptor holds "," or ":"
PlainText(D) ==
    /\ \A i \in 1..Len(D.sorting) : ~Punctuated(D.sorting[i].id)
    /\ \A i \in 1..Len(D.columnFilters) :
          /\ ~Punctuated(D.columnFilters[i].id)
          /\ ~Punctuated(D.columnFilters[i].value)

AbsentPaginationIsFirstPage ==
    [][\A D \in Variants(probe) :
          ~HasPagination(D)
              => LET E == [D EXCEPT !.pagination =
                                       <<[pageIndex |-> 0, pageSize |-> 10]>>]
                 IN  /\ getCacheKey(D) = getCacheKey(E)
                     /\ BuildUrl(D) = BuildUrl(E)
                     /\ ((getCacheKey(D) \in DOMAIN cache
                            /\ (FetchData(D) \/ FetchData(E)))
                           => /\ last'.hit
                              /\ requests' = requests)]_vars

\* an unpaginated descriptor was fetched twice, in either spelling, on one
\* transport call for the first page
FirstPageFetchedOnce ==
    /\ ~HasPagination(probe)
    /\ last.op = "fetchData"
    /\ last.hit
    /\ Cardinality(requests) = 1
    /\ \A q \in requests : q.url = BuildUrl(FirstPageSpelledOut(probe))

\* C16: the URL requested on a miss is <baseUrl>/<endpoint>? followed by the
\* parameters _sort (only for a non-empty sorting: the ids in order joined by
\* ",", "-" before a descending one), _page = pageIndex + 1, _per_page =
\* pageSize, <globalFilterField>=<globalFilter> (only for a configured field
\* and a non-empty filter) and one <id>=<value> per column filter in order,
\* consecutive parameters separated by exactly one "&".
UrlIsReferenceUrl ==
    [][\A D \in Variants(probe) :
          (FetchData(D) /\ ~last'.hit)
              => LET sortParam ==
                         IF Len(D.sorting) > 0
                         THEN <<"_sort=" \o
                                Join([i \in 1..Len(D.sorting) |->
                                        (IF D.sorting[i].desc THEN "-" ELSE "")
                                        \o D.sorting[i].id], ",")>>
                         ELSE <<>>
                     index == IF HasPagination(D) THEN PageIndexOf(D) ELSE 0
                     size == IF HasPagination(D) THEN PageSizeOf(D) ELSE 10
                     pageParams == <<"_page=" \o ToString(index + 1),
                                     "_per_page=" \o ToString(size)>>
                     filterParam ==
                         IF globalFilterField # "" /\ D.globalFilter # ""
                         THEN <<globalFilterField \o "=" \o D.globalFilter>>
                         ELSE <<>>
                     columnParams ==
                         [i \in 1..Len(D.columnFilters) |->
                             D.columnFilters[i].id \o "=" \o D.columnFilters[i].value]
                     reference ==
                         baseUrl \o "/" \o endpoint \o "?" \o
                         Join(sortParam \o pageParams \o filterParam \o columnParams, "&")
                 IN  \A q \in requests' \ requests : q.url = reference]_vars

\* the latest run of the fetch effect
Latest(runs) == {e \in runs : e.id = Cardinality(runs)}

\* the step resumes run e and writes its response to currentData
Writes(e) == Resume(e) /\ [e EXCEPT !.phase = "applied"] \in effects'

\* every run resumed, and the latest one, for the present table state, wrote
SettledOnLatest ==
    /\ grid.mounted
    /\ ~grid.dirty
    /\ \A e \in effects : e.phase # "awaiting"
    /\ \E e \in Latest(effects) : e.phase = "applied"

\* currentData is the response of the transport call the latest run awaited,
\* which is a call for the present table state
ShowsLatest ==
    \A e \in Latest(effects) :
        \A q \in Awaited(e.promise) :
            /\ grid.currentData = ResponseOf(q)
            /\ q.url = BuildUrl(grid.state)

\* C17 as stated: a response is written to currentData only if the table
\* state has not changed and the component has not unmounted since the fetch
\* that produced it was started; once all fetches settled and the fetch for
\* the latest state succeeded, currentData is the response for that state.
StaleResponsesDiscarded ==
    /\ [][\A e \in effects :
             Writes(e) => /\ grid.mounted
                          /\ e \in Latest(effects)
                          /\ ~grid.dirty
                          /\ e.options = grid.state]_vars
    /\ [](SettledOnLatest => ShowsLatest)

\* C17 amended: a response is written to currentData only if no later run of
\* the fetch effect has started and the component has not unmounted since
\* the fetch that produced it was started; once all fetches settled and the
\* fetch for the latest state succeeded, currentData is the response for
\* that state.
SupersededResponsesDiscarded ==
    /\ [][\A e \in effects :
             Writes(e) => /\ grid.mounted
                          /\ e \in Latest(effects)]_vars
    /\ [](SettledOnLatest => ShowsLatest)

\* the response of a superseded run was discarded and the table shows the
\* response for its latest state
StaleDiscardedLatestShown ==
    /\ SettledOnLatest
    /\ ShowsLatest
    /\ \E e \in effects : e.phase = "discarded" /\ e.options # grid.state

\* the step resumes run e on a rejected promise
Fails(e) == Resume(e) /\ [e EXCEPT !.phase = "failed"] \in effects'

InitialDataUntilFirstResponse ==
    /\ getInitialData = initialProductResponse
    /\ getRowData(getInitialData) = <<>>
    /\ getRowCount(getInitialData) = 0
    /\ getPageCount(getInitialData) = 0
    /\ (\A e \in effects : e.phase # "applied")
          => /\ grid.currentData = getInitialData
             /\ getRowData(grid.currentData) = <<>>
             /\ getRowCount(grid.currentData) = 0
             /\ getPageCount(grid.currentData) = 0

\* fetches were issued and settled, one of them successfully, and the mounted
\* table still shows the initial data
InitialDataWhileFetching ==
    /\ grid.mounted
    /\ grid.currentData = getInitialData
    /\ \A e \in effects : e.phase # "applied"
    /\ \E e \in effects : e.phase = "failed"
    /\ \E e \in effects, q \in requests :
          /\ e.phase = "awaiting"
          /\ q \in Awaited(e.promise)
          /\ q.status = "resolved"

\* the mounted table shows, for its present state, a response whose cache
\* entry was invalidated
ShowsInvalidated ==
    /\ grid.mounted
    /\ ~grid.dirty
    /\ \E e \in Latest(effects), q \in requests :
          /\ e.phase = "applied"
          /\ q \in Awaited(e.promise)
          /\ q.removed
          /\ grid.currentData = ResponseOf(q)

\* a transport call for the present table state was made after the
\* invalidation
Refetched ==
    \E q \in requests : q.key = getCacheKey(grid.state) /\ ~q.removed

\* C20: after invalidateCache removed the entry of the response a mounted
\* table shows, the table eventually issues a new fetch for its state unless
\* the user changes the state or the table unmounts first.
TableUpdatesAfterInvalidation ==
    ShowsInvalidated ~> (Refetched \/ grid.dirty \/ ~grid.mounted)

\* the flag is not set by the features prop
Omitted(given, flag) == given = NoFeatures \/ flag \notin DOMAIN given[1]

\* C21: every feature flag the features prop leaves out counts as true: its
\* manual mode, its state slice and its change handler are in the options the
\* rendered table is built from.
OmittedFlagsAreEnabled ==
    rendered.options # <<>> =>
        LET options == rendered.options[1]
        IN  /\ Omitted(rendered.features, "enablePagination")
                  => /\ options.manualPagination
                     /\ "pagination" \in options.state
                     /\ "onPaginationChange" \in options.handlers
            /\ Omitted(rendered.features, "enableSorting")
                  => /\ options.manualSorting
                     /\ "sorting" \in options.state
                     /\ "onSortingChange" \in options.handlers
            /\ Omitted(rendered.features, "enableGlobalFilter")
                  => /\ options.manualGlobalFilter
                     /\ "globalFilter" \in options.state
                     /\ "onGlobalFilterChange" \in options.handlers
            /\ Omitted(rendered.features, "enableColumnFilters")
                  => /\ options.manualFiltering
                     /\ "columnFilters" \in options.state
                     /\ "onColumnFiltersChange" \in options.handlers

\* C22: no step replaces the promise under a key; a key leaves the map only
\* in invalidateCache of that key or in clearCache; a key enters the map only
\* in a fetchData miss (of fetchData, prefetchInitialData or
\* prefetchAdjacentPages); the settling of a transport call and a cache hit
\* leave the map as it is.
MapChangedOnlyByInsertAndDelete ==
    [][/\ \A k \in DOMAIN cache \cap DOMAIN cache' : cache'[k] = cache[k]
       /\ DOMAIN cache \ DOMAIN cache' # {}
             => \/ ClearCache
                \/ \E D \in AllDescriptors :
                      /\ InvalidateCache(D)
                      /\ DOMAIN cache \ DOMAIN cache' = {getCacheKey(D)}
       /\ DOMAIN cache' \ DOMAIN cache # {}
             => /\ last'.op \in {"fetchData", "prefetchInitialData",
                                  "prefetchAdjacentPages"}
                /\ ~last'.hit
                /\ DOMAIN cache \subseteq DOMAIN cache'
       /\ last'.op \in {"resolve", "reject"} => cache' = cache
       /\ last'.hit => cache' = cache]_vars

\* a transport call settled while its entry and another one were in the map,
\* and both are still there
SettledEntryStays ==
    /\ last.op \in {"resolve", "reject"}
    /\ Cardinality(DOMAIN cache) >= 2
    /\ \E q \in requests :
          /\ q.status # "pending"
          /\ q.key \in DOMAIN cache
          /\ cache[q.key] = q.n
(***************************************************************************)
(* The prefetch effect of the page.                                        *)
(***************************************************************************)
\* the timeout was set by a run of the effect that a change of the page
\* index caused (the first run is that of the mount)
SetByPageChange(t) == t.id > 1

\* C23: when the timeout that a change of the page index set fires,
\* prefetchAdjacentPages is called with the grid's current descriptor (the
\* page index and the sorting and filters the grid has at that moment), and
\* the primary fetch of that descriptor was issued before
PrefetchPassesCurrentDescriptor ==
    [][\A t \in app.timers :
          (SetByPageChange(t) /\ TimerFires(t)) =>
              /\ t.options = app.options
              /\ getCacheKey(app.options) \in {q.key : q \in requests}]_vars

(***************************************************************************)
(* Failures of the grid's fetch.                                           *)
(***************************************************************************)
\* C24: a rejection of the promise of dataProvider.fetchData is handled by
\* the catch block of DataTable (and logged): no run of the effect ends with
\* the promise of its async callback rejected outside the try statement.
FetchFailuresAreCaught == \A e \in effects : e.phase # "failed"

(***************************************************************************)
(* Soundness of the key.                                                   *)
(***************************************************************************)
\* C25: two descriptors with the same key have the same transport URL: when
\* fetchData(D) is a hit, the transport call whose promise the entry holds
\* was made with the URL that fetchData would build for D.
SameKeySameUrl ==
    [][\A D \in {probe, TypedAsOne(probe)} :
          (FetchData(D) /\ last'.hit)
              => \A q \in requests :
                    (q.key = getCacheKey(D) /\ q.n = cache[q.key])
                        => q.url = BuildUrl(D)]_vars

(***************************************************************************)
(* Removal while a transport call is pending.                              *)
(***************************************************************************)
\* the entry of the key was removed while its transport call was pending,
\* and no fetch has put a new one since
RemovedInFlight(cacheKey) ==
    /\ cacheKey \notin DOMAIN cache
    /\ \E q \in CallsFor(requests, cacheKey) : q.removed /\ q.status = "pending"

\* the step settles the transport call q
Settles(q) ==
    \/ \E pages \in PageCounts : TransportResolve(q, pages)
    \/ TransportReject(q)

\* C26: after invalidateCache(D) or clearCache() removed the entry of a
\* pending transport call, fetchData(D) makes a second transport call of its
\* own and hands out its promise, the promises of the first call keep their
\* call (whose state the second fetch leaves alone), and the settling of a
\* removed call changes neither the map nor any other call.
RemovalInFlightKeepsCallsApart ==
    [][/\ \A D \in FetchDescriptors :
             (RemovedInFlight(getCacheKey(D)) /\ FetchData(D))
                 => /\ ~last'.hit
                    /\ \E q \in Issued :
                          /\ last'.returned = AsyncReturn(StoredPromise(q.key, q.n))
                          /\ q.key = getCacheKey(D)
                          /\ cache'[q.key] = q.n
                          /\ \A first \in CallsFor(requests, q.key) : first.n # q.n
                    /\ requests \subseteq requests'
       /\ \A q \in requests :
             (q.removed /\ Settles(q))
                 => /\ cache' = cache
                    /\ \A r \in requests \ {q} : r \in requests'
                    /\ \E settled \in requests' :
                          /\ settled.key = q.key /\ settled.n = q.n
                          /\ settled.removed]_vars

\* the first call was removed while pending and has settled since, the
\* second call for the key is pending and holds the entry
FirstSettledSecondHoldsEntry ==
    \E first, second \in requests :
        /\ requests = {first, second}
        /\ first.key = second.key
        /\ first.n < second.n
        /\ first.removed /\ first.status # "pending"
        /\ second.status = "pending" /\ ~second.removed
        /\ second.key \in DOMAIN cache
        /\ cache[second.key] = second.n
        /\ last.op \in {"resolve", "reject"}

(***************************************************************************)
(* Isolation of the instances.                                             *)
(***************************************************************************)
\* C27: every DataCache has its own entry map: a method called on the
\* provider of the table leaves the entries of the second provider as they
\* are, a method called on the second provider (the prefetchInitialData of a
\* freshly constructed provider included) leaves the entries of the table's
\* provider as they are, and a fetchData of the table's provider is a hit
\* only on an entry that its own map held before the call.
InstancesAreIsolated ==
    [][/\ OnTable => EntriesOf(other)' = EntriesOf(other)
       /\ OnOther => cache' = cache
       /\ \A options \in InstanceDescriptors :
             (FetchData(options) /\ last'.hit)
                 => /\ getCacheKey(options) \in DOMAIN cache
                    /\ Issued = {}]_vars

\* the second provider prefetched the first page, and the first fetchData of
\* the table's provider for the same page was a miss with a call of its own
PrefetchedElsewhereMissedHere ==
    LET cacheKey == getCacheKey(MergeInitial(InitialProductOptions))
    IN  /\ other.made > 0
        /\ cacheKey \in DOMAIN other.cache
        /\ cacheKey \in DOMAIN cache
        /\ cache[cacheKey] # other.cache[cacheKey]
        /\ last.op = "fetchData"
        /\ ~last.hit
        /\ last.returned = AsyncReturn(StoredPromise(cacheKey, cache[cacheKey]))

(***************************************************************************)
(* debounce.                                                               *)
(***************************************************************************)
\* the call is the last of its burst: no call follows it within the delay
LastOfBurst(calls, i) ==
    i = Len(calls) \/ calls[i + 1].at - calls[i].at >= Delay

\* the invocations of func that are due by now: one for the last call of
\* every burst, delay after that call, with its arguments
DueInvocations(calls, now) ==
    LET Due(i) == LastOfBurst(calls, i) /\ calls[i].at + Delay <= now
        Count(i) == Cardinality({j \in 1..i : Due(j)})
        n == Count(Len(calls))
    IN  [k \in 1..n |->
            LET i == CHOOSE j \in 1..Len(calls) : Due(j) /\ Count(j) = k
            IN  [at |-> calls[i].at + Delay, args |-> calls[i].args]]

SupersededPrefetchNeverCalled ==
    [][\A t \in app.timers :
          (SetByPageChange(t) /\ TimerFires(t))
              => PageIndexOf(t.options) = PageIndexOf(app.options)]_vars

\* C29, amended: when the effect runs again for a changed page index, or the
\* component unmounts, the timeout of the previous run is cleared, so at
\* most one timeout is pending, it is the one of the last run of the effect
\* of a mounted component, and a timeout that fires holds the page index of
\* the last run of the effect.  (A timeout that falls due after the render
\* of the new page and before that run still fires for the previous page.)
SupersededTimeoutIsCleared ==
    /\ [](/\ Cardinality(app.timers) <= 1
          /\ \A t \in app.timers :
                /\ app.mounted
                /\ t.id = app.timeoutId
                /\ PageIndexOf(t.options) = app.deps)
    /\ [][/\ (PrefetchEffect \/ UnmountApp) =>
                \A t \in app.timers : t \notin app'.timers
          /\ \A t \in app.timers :
                TimerFires(t) => PageIndexOf(t.options) = app.deps]_vars

\* the page changed twice faster than the timeouts, and the only prefetch is
\* that of the final page: pages 0, 1 and 2 were fetched by renders, page 3
\* by the prefetch
OnlyFinalPagePrefetched ==
    /\ app.made = 3
    /\ app.timers = {}
    /\ PageIndexOf(app.options) = 2
    /\ last.op = "prefetchAdjacentPages"
    /\ Cardinality(requests) = 4
    /\ \A q \in requests :
          (q.via = "prefetch") <=> (q.key = getCacheKey(WithPage(AppInitialOptions, 3, 10)))

(***************************************************************************)
(* Changes that leave the page index as it is.                             *)
(***************************************************************************)
\* the step is a handler that changes the sorting, the global filter or the
\* column filters and leaves the page index as it is (the filter handlers
\* reset it to 0: lines 79 and 86)
SameIndexChange ==
    \/ \E sorting \in AppSortings :
          sorting # app.options.sorting /\ onSortingChange(sorting)
    \/ \E globalFilter \in AppSearches :
          /\ globalFilter # app.options.globalFilter
          /\ PageIndexOf(app.options) = 0
          /\ onGlobalFilterChange(globalFilter)
    \/ \E columnFilters \in {<<>>, InCategory} :
          /\ columnFilters # app.options.columnFilters
          /\ PageIndexOf(app.options) = 0
          /\ onColumnFiltersChange(columnFilters)

\* the keys of the pages next to the page of options
NeighbourKeys(options) ==
    LET pages == AdjacentPages(options)
    IN  {getCacheKey(pages[i]) : i \in 1..Len(pages)}

====
